---- MODULE Spec2Model ----
(***************************************************************************)
(* Model of the trucking OCR service: the chunked-upload session manager   *)
(* (controllers/ocrController.js + services/fileService.js), the OCR job   *)
(* lifecycle (services/ocrService.js on a Bull queue), and the fixed       *)
(* window rate limiter (middleware/rateLimiter.js).                        *)
(*                                                                         *)
(* Conventions: a JavaScript null is the empty tuple <<>> and a non-null   *)
(* value v is <<v>>; timestamps are readings of the clock `now`, with -1   *)
(* for null; progress and confidence are held in hundredths (0.75 = 75).   *)
(* Logging calls have no effect on the modelled state and are left out.    *)
(***************************************************************************)
EXTENDS Integers, Sequences, FiniteSets, TLC

\* ---------------------------------------------------------------- bounds
MaxNow == 4
MaxFileSize == 3
MaxChunkSize == 2
MaxIndex == 2
MaxTotal == 3
MaxStored == 4

Null == <<>>
Some(v) == <<v>>
NoTime == -1

SessionIds == {"u1"}
Bytes == {"a", "b"}

\* The textual chunkIndex values a client can send.  "plain" is the decimal
\* numeral of num; "padded" is another numeral of the same number ("00").
RawIndices ==
  {[num |-> n, form |-> "plain"] : n \in 0..MaxIndex} \cup {[num |-> 0, form |-> "padded"]}

parseInt(raw) == raw.num

VARIABLES
  now,             \* Date.now()
  uploadSessions,  \* fileService: Map uploadId -> session
  sessionChunks,   \* fileService: Map uploadId -> array of chunk metadata
  chunkFiles,      \* temp/<uploadId>-chunk-<chunkIndex> -> bytes
  artifacts,       \* uploads/<uploadId>-...: the bytes written so far
  chunkResponse,   \* outcome of the last POST /chunk
  cleanupResponse, \* outcome of the last FileService.cleanup / cleanupOldSessions
  createResponse,  \* outcome of the last POST /upload
  ingest,          \* POST /chunk calls in flight: position and arguments of each
  arrival,         \* history: numeric indices in order of arrival
  lastBytes,       \* history: bytes last ingested for each numeric index
  imageText,       \* what the recognition engine reads in a session's image
  optimizedFiles,  \* uploads/...-ocr-optimized.jpg exists, per session
  jobStatuses,     \* ocrService: Map jobId -> job status record
  bull,            \* the Bull queue's record of each job
  run,             \* position of the processImageJob call of each job
  cancelling,      \* cancelJob call in flight: "no", or the status its check saw
  cancelResponse,  \* outcome of the last DELETE /job/:jobId
  processResponse, \* outcome of the last POST /process
  statusCall,      \* GET /status/:jobId: the call in flight and the last answer
  clients,         \* MemoryStore.clients: key -> { count, resetTime }
  resetTime,       \* MemoryStore.resetTime: key -> time
  admitResponse,   \* outcome of the last pass through the rate limiter
  admitHistory     \* history: per key, the time and outcome of each request

uploadVars ==
  <<uploadSessions, sessionChunks, chunkFiles, artifacts, chunkResponse, cleanupResponse,
    createResponse, ingest, arrival, lastBytes>>

jobVars ==
  <<imageText, optimizedFiles, jobStatuses, bull, run, cancelling, cancelResponse,
    processResponse, statusCall>>

limiterVars == <<clients, resetTime, admitResponse, admitHistory>>

vars == <<now, uploadVars, jobVars, limiterVars>>

\* ------------------------------------------------------- upload sessions
NoSession ==
  [exists |-> FALSE, fileSize |-> 0, chunkSize |-> 0, maxChunks |-> 0, receivedChunks |-> 0,
   status |-> "none", combinedPath |-> Null, createdAt |-> NoTime]
NoList == [present |-> FALSE, list |-> <<>>]
NoCleanup == [uploadId |-> "none", ok |-> TRUE, count |-> 0]
NoCreate == [uploadId |-> "none", error |-> "none", chunkSize |-> 0, maxChunks |-> 0]
NoFile == <<>>

\* The POST /chunk calls that can be in flight at once.
Requests == {"A", "B"}
NoIngest ==
  [r \in Requests |->
     [pc |-> "idle", uploadId |-> "none", raw |-> [num |-> 0, form |-> "plain"],
      totalChunks |-> 0, bytes |-> "a", receivedChunks |-> 0, overlapped |-> FALSE,
      calls |-> 0]]

ChunkPath(uploadId, raw) == <<uploadId, raw>>
ChunkPaths == {ChunkPath(s, r) : s \in SessionIds, r \in RawIndices}

\* The quotient rounded down, plus one.
FloorPlusOne(a, b) == a \div b + 1

\* Math.ceil(a / b) for positive a and b.
Ceil(a, b) == (a + b - 1) \div b

\* chunks.sort((a, b) => a.index - b.index): a stable sort by index.
RECURSIVE InsertByIndex(_, _)
InsertByIndex(sorted, c) ==
  IF sorted = <<>> THEN <<c>>
  ELSE IF c.index < sorted[Len(sorted)].index
       THEN Append(InsertByIndex(SubSeq(sorted, 1, Len(sorted) - 1), c), sorted[Len(sorted)])
       ELSE Append(sorted, c)

\* The chunk array left in arrival order.
SortByIndexArrivalOrder(chunks) == chunks

RECURSIVE SortByIndex(_)
SortByIndex(chunks) ==
  IF chunks = <<>> THEN <<>>
  ELSE InsertByIndex(SortByIndex(SubSeq(chunks, 1, Len(chunks) - 1)), chunks[Len(chunks)])

\* A copy loop that reads nothing and reports success.
CopyChunksUnchecked(chunks, files, out) == [ok |-> TRUE, files |-> files, out |-> out]

\* The copy loop of combineChunks: read each chunk file, append it to the
\* output, unlink the chunk file.  A missing chunk file makes readFile throw.
RECURSIVE CopyChunks(_, _, _)
CopyChunks(chunks, files, out) ==
  IF chunks = <<>> THEN [ok |-> TRUE, files |-> files, out |-> out]
  ELSE LET p == chunks[1].path IN
       IF files[p] = NoFile THEN [ok |-> FALSE, files |-> files, out |-> out]
       ELSE CopyChunks(Tail(chunks), [files EXCEPT ![p] = NoFile], out \o files[p])

\* fileService.combineChunks, given the session, its chunk array and the
\* temp directory.  The array is sorted in place before the count check.
combineChunks(session, chunks, files) ==
  LET sorted == SortByIndex(chunks)
      expectedChunks == IF session.maxChunks # 0 THEN session.maxChunks ELSE Len(chunks)
  IN IF Len(chunks) = 0
       THEN [ok |-> FALSE, error |-> "NoChunks", chunks |-> chunks,
             files |-> files, out |-> Null]
     ELSE IF Len(sorted) # expectedChunks
       THEN [ok |-> FALSE, error |-> "MissingChunks", chunks |-> sorted,
             files |-> files, out |-> Null]
     ELSE LET copy == CopyChunks(sorted, files, <<>>) IN
          [ok |-> copy.ok, error |-> IF copy.ok THEN "none" ELSE "ENOENT",
           chunks |-> sorted, files |-> copy.files, out |-> Some(copy.out)]

\* chunkSize || 1048576
DefaultChunkSize == 1048576

\* POST /api/ocr/upload with a filename; a fileSize or chunkSize that is
\* absent from the body is 0 here (both are falsy).
createUploadSession(uploadId, fileSize, chunkSize) ==
  /\ fileSize # 0
  /\ ~uploadSessions[uploadId].exists
  /\ ~sessionChunks[uploadId].present
  /\ LET size == IF chunkSize # 0 THEN chunkSize ELSE DefaultChunkSize
         maxChunks == Ceil(fileSize, size)
     IN /\ uploadSessions' = [uploadSessions EXCEPT ![uploadId] =
             [exists |-> TRUE, fileSize |-> fileSize, chunkSize |-> size,
              maxChunks |-> maxChunks, receivedChunks |-> 0,
              status |-> "uploading", combinedPath |-> Null, createdAt |-> now]]
        /\ createResponse' = [uploadId |-> uploadId, error |-> "none", chunkSize |-> size,
                              maxChunks |-> maxChunks]
  /\ sessionChunks' = [sessionChunks EXCEPT ![uploadId] = [present |-> TRUE, list |-> <<>>]]
  /\ UNCHANGED <<now, chunkFiles, artifacts, chunkResponse, cleanupResponse, ingest, arrival, lastBytes,
                 jobVars, limiterVars>>

\* POST /api/ocr/upload without a filename or without a fileSize: 400.
createUploadSessionRejected(hasFilename, fileSize) ==
  /\ ~hasFilename \/ fileSize = 0
  /\ createResponse' = [uploadId |-> "none", error |-> "InvalidInput", chunkSize |-> 0,
                        maxChunks |-> 0]
  /\ UNCHANGED <<now, uploadSessions, sessionChunks, chunkFiles, artifacts, chunkResponse,
                 cleanupResponse, ingest, arrival, lastBytes, jobVars, limiterVars>>

\* The session is found; its status is not looked at.
SessionFound(uploadId) == uploadSessions[uploadId].exists

\* The session checks of POST /api/ocr/chunk: found, and status 'uploading'.
SessionUploading(uploadId) ==
  /\ uploadSessions[uploadId].exists
  /\ uploadSessions[uploadId].status = "uploading"

\* POST /api/ocr/chunk on an unknown session or one that is not uploading.
uploadChunkRejected(uploadId) ==
  /\ \/ ~uploadSessions[uploadId].exists
     \/ uploadSessions[uploadId].status # "uploading"
  /\ chunkResponse' =
       [uploadId |-> uploadId,
        error |-> IF ~uploadSessions[uploadId].exists THEN "SessionNotFound" ELSE "InvalidState",
        receivedChunks |-> 0, complete |-> FALSE]
  /\ UNCHANGED <<now, uploadSessions, sessionChunks, chunkFiles, artifacts, cleanupResponse,
                 createResponse, ingest, arrival,
                 lastBytes, jobVars, limiterVars>>

\* POST /api/ocr/chunk on an uploading session: store the chunk file, add
\* the chunk, and combine when the count equals the request's totalChunks.
uploadChunk(uploadId, raw, totalChunks, bytes) ==
  /\ SessionUploading(uploadId)
  /\ Len(sessionChunks[uploadId].list) < MaxStored
  /\ LET chunkPath == ChunkPath(uploadId, raw)
         stored == [chunkFiles EXCEPT ![chunkPath] = <<bytes>>]
         chunk == [index |-> parseInt(raw), path |-> chunkPath, size |-> 1]
         chunks == Append(sessionChunks[uploadId].list, chunk)
         receivedChunks == Len(chunks)
         session == [uploadSessions[uploadId] EXCEPT !.receivedChunks = receivedChunks]
         combined == combineChunks(session, chunks, stored)
     IN /\ arrival' = [arrival EXCEPT ![uploadId] = Append(@, parseInt(raw))]
        /\ lastBytes' = [lastBytes EXCEPT ![uploadId][parseInt(raw)] = Some(bytes)]
        /\ IF receivedChunks = totalChunks
             THEN /\ sessionChunks' = [sessionChunks EXCEPT ![uploadId].list = combined.chunks]
                  /\ chunkFiles' = combined.files
                  /\ artifacts' = IF combined.out = Null THEN artifacts
                                  ELSE [artifacts EXCEPT ![uploadId] = combined.out]
                  /\ uploadSessions' = [uploadSessions EXCEPT ![uploadId] =
                       IF combined.ok
                         THEN [session EXCEPT !.status = "completed",
                                              !.combinedPath = Some(uploadId)]
                         ELSE session]
                  /\ chunkResponse' =
                       [uploadId |-> uploadId, error |-> combined.error,
                        receivedChunks |-> receivedChunks, complete |-> combined.ok]
             ELSE /\ sessionChunks' = [sessionChunks EXCEPT ![uploadId].list = chunks]
                  /\ chunkFiles' = stored
                  /\ uploadSessions' = [uploadSessions EXCEPT ![uploadId] = session]
                  /\ chunkResponse' =
                       [uploadId |-> uploadId, error |-> "none",
                        receivedChunks |-> receivedChunks, complete |-> FALSE]
                  /\ UNCHANGED artifacts
  /\ UNCHANGED <<now, cleanupResponse, createResponse, ingest, jobVars, limiterVars>>

\* The count has not passed the request's totalChunks.
AtMostTotal(receivedChunks, totalChunks) == receivedChunks <= totalChunks

\* receivedChunks === totalChunksNum
EqualsTotal(receivedChunks, totalChunks) == receivedChunks = totalChunks

\* POST /api/ocr/chunk as the steps its awaits cut it into.  First step:
\* multer has stored the upload, the session checks pass, fs.rename starts.
uploadChunkBegin(r, uploadId, raw, totalChunks, bytes) ==
  /\ ingest[r].pc = "idle"
  /\ SessionUploading(uploadId)
  /\ ingest' = [q \in Requests |->
       IF q = r
         THEN [pc |-> "renaming", uploadId |-> uploadId, raw |-> raw,
               totalChunks |-> totalChunks, bytes |-> bytes, receivedChunks |-> 0,
               overlapped |-> \E o \in Requests \ {r} : ingest[o].pc # "idle",
               calls |-> ingest[r].calls]
       ELSE IF ingest[q].pc # "idle" THEN [ingest[q] EXCEPT !.overlapped = TRUE]
       ELSE ingest[q]]
  /\ UNCHANGED <<now, uploadSessions, sessionChunks, chunkFiles, artifacts, chunkResponse,
                 cleanupResponse, createResponse, arrival, lastBytes, jobVars, limiterVars>>

\* Second step: fs.rename has returned; addChunk, getChunkCount and the
\* comparison follow with no I/O in between, then combineChunks up to its
\* first I/O (the sort in place and the count check) or the response.
uploadChunkRenamed(r) ==
  /\ ingest[r].pc = "renaming"
  /\ LET uploadId == ingest[r].uploadId
         raw == ingest[r].raw
         chunkPath == ChunkPath(uploadId, raw)
         chunk == [index |-> parseInt(raw), path |-> chunkPath, size |-> 1]
         chunks == Append(sessionChunks[uploadId].list, chunk)
         receivedChunks == Len(chunks)
         found == uploadSessions[uploadId].exists
         session == IF found
                      THEN [uploadSessions[uploadId] EXCEPT !.receivedChunks = receivedChunks]
                      ELSE uploadSessions[uploadId]
         sorted == SortByIndex(chunks)
         expectedChunks == IF session.maxChunks # 0 THEN session.maxChunks ELSE Len(chunks)
     IN /\ chunkFiles' = [chunkFiles EXCEPT ![chunkPath] = <<ingest[r].bytes>>]
        /\ uploadSessions' = [uploadSessions EXCEPT ![uploadId] = session]
        /\ arrival' = [arrival EXCEPT ![uploadId] = Append(@, parseInt(raw))]
        /\ lastBytes' = [lastBytes EXCEPT ![uploadId][parseInt(raw)] = Some(ingest[r].bytes)]
        /\ IF ~EqualsTotal(receivedChunks, ingest[r].totalChunks)
             THEN /\ sessionChunks' = [sessionChunks EXCEPT ![uploadId] =
                                         [present |-> TRUE, list |-> chunks]]
                  /\ ingest' = [ingest EXCEPT ![r].pc = "idle",
                                              ![r].receivedChunks = receivedChunks]
                  /\ chunkResponse' =
                       [uploadId |-> uploadId, error |-> "none",
                        receivedChunks |-> receivedChunks, complete |-> FALSE]
           ELSE IF ~found
             THEN /\ sessionChunks' = [sessionChunks EXCEPT ![uploadId] =
                                         [present |-> TRUE, list |-> chunks]]
                  /\ ingest' = [ingest EXCEPT ![r].pc = "idle",
                                              ![r].receivedChunks = receivedChunks,
                                              ![r].calls = @ + 1]
                  /\ chunkResponse' =
                       [uploadId |-> uploadId, error |-> "SessionNotFound",
                        receivedChunks |-> receivedChunks, complete |-> FALSE]
           ELSE IF Len(sorted) # expectedChunks
             THEN /\ sessionChunks' = [sessionChunks EXCEPT ![uploadId] =
                                         [present |-> TRUE, list |-> sorted]]
                  /\ ingest' = [ingest EXCEPT ![r].pc = "idle",
                                              ![r].receivedChunks = receivedChunks,
                                              ![r].calls = @ + 1]
                  /\ chunkResponse' =
                       [uploadId |-> uploadId, error |-> "MissingChunks",
                        receivedChunks |-> receivedChunks, complete |-> FALSE]
           ELSE /\ sessionChunks' = [sessionChunks EXCEPT ![uploadId] =
                                       [present |-> TRUE, list |-> sorted]]
                /\ ingest' = [ingest EXCEPT ![r].pc = "combining",
                                            ![r].receivedChunks = receivedChunks,
                                            ![r].calls = @ + 1]
                /\ UNCHANGED chunkResponse
  /\ UNCHANGED <<now, artifacts, cleanupResponse, createResponse, jobVars, limiterVars>>

\* Third step: the copy loop of combineChunks over the session's chunk
\* array as it is, then updateUploadSession and the response.
uploadChunkCombined(r) ==
  /\ ingest[r].pc = "combining"
  /\ LET uploadId == ingest[r].uploadId
         copy == CopyChunks(sessionChunks[uploadId].list, chunkFiles, <<>>)
     IN /\ chunkFiles' = copy.files
        /\ artifacts' = [artifacts EXCEPT ![uploadId] = Some(copy.out)]
        /\ uploadSessions' =
             IF copy.ok
               THEN [uploadSessions EXCEPT ![uploadId].status = "completed",
                                           ![uploadId].combinedPath = Some(uploadId)]
               ELSE uploadSessions
        /\ chunkResponse' =
             [uploadId |-> uploadId, error |-> IF copy.ok THEN "none" ELSE "ENOENT",
              receivedChunks |-> ingest[r].receivedChunks, complete |-> copy.ok]
  /\ ingest' = [ingest EXCEPT ![r].pc = "idle"]
  /\ UNCHANGED <<now, sessionChunks, cleanupResponse, createResponse, arrival, lastBytes,
                 jobVars, limiterVars>>

\* ------------------------------------------------------- session cleanup
\* The sessions of the specifications that run the cleanup operations.
SweepSessions == {"u1", "u2"}

\* The combined file of a session, as a file name.
CombinedFile(uploadId) == <<uploadId, [num |-> -1, form |-> "combined"]>>

\* The files whose deletion can fail: the first chunk file and the combined
\* file of one session.
DeletableFiles == {ChunkPath("u1", [num |-> 0, form |-> "plain"]), CombinedFile("u1")}

\* A cleanup that gives up when a deletion fails.
cleanupAbortsOnFailure(anyFailed) == ~anyFailed

\* Each fs.unlink of FileService.cleanup sits in its own try/catch: a failed
\* deletion is logged and the call goes on to remove the records.
cleanupCompletes(anyFailed) == TRUE

\* FileService.cleanup(uploadId) on the two maps, the temp directory and the
\* uploads directory; the unlink of a file in `failing` throws.
cleanupOf(st, uploadId, failing) ==
  LET session == st.sessions[uploadId]
      chunks == st.lists[uploadId].list
      paths == {chunks[i].path : i \in 1..Len(chunks)}
      combined == IF session.combinedPath # Null THEN {CombinedFile(uploadId)} ELSE {}
      anyFailed == (paths \cup combined) \cap failing # {}
      files == [p \in DOMAIN st.files |->
                 IF p \in paths /\ p \notin failing THEN NoFile ELSE st.files[p]]
      arts == IF combined # {} /\ CombinedFile(uploadId) \notin failing
                THEN [st.arts EXCEPT ![uploadId] = Null] ELSE st.arts
  IN IF cleanupCompletes(anyFailed)
       THEN [ok |-> TRUE, sessions |-> [st.sessions EXCEPT ![uploadId] = NoSession],
             lists |-> [st.lists EXCEPT ![uploadId] = NoList], files |-> files, arts |-> arts]
       ELSE [ok |-> FALSE, sessions |-> st.sessions, lists |-> st.lists, files |-> files,
             arts |-> arts]

StoreState ==
  [ok |-> TRUE, sessions |-> uploadSessions, lists |-> sessionChunks, files |-> chunkFiles,
   arts |-> artifacts]

\* FileService.cleanup(uploadId) as a call of its own.
cleanupSession(uploadId, failing) ==
  /\ LET c == cleanupOf(StoreState, uploadId, failing) IN
       /\ uploadSessions' = c.sessions
       /\ sessionChunks' = c.lists
       /\ chunkFiles' = c.files
       /\ artifacts' = c.arts
       /\ cleanupResponse' = [uploadId |-> uploadId, ok |-> c.ok, count |-> 0]
       /\ arrival' = IF c.sessions[uploadId].exists THEN arrival
                     ELSE [arrival EXCEPT ![uploadId] = <<>>]
       /\ lastBytes' = IF c.sessions[uploadId].exists THEN lastBytes
                       ELSE [lastBytes EXCEPT ![uploadId] = [i \in 0..MaxIndex |-> Null]]
  /\ UNCHANGED <<now, chunkResponse, createResponse, ingest, jobVars, limiterVars>>

\* The age test with the cutoff instant counted as old.
OlderOrEqual(session, cutoffTime) == session.createdAt <= cutoffTime

\* createdAt < cutoffTime in cleanupOldSessions.
Older(session, cutoffTime) == session.createdAt < cutoffTime

\* The loop of cleanupOldSessions: cleanup of each collected session, a
\* throw of one being logged and the loop continuing.
RECURSIVE cleanupAll(_, _, _)
cleanupAll(st, ids, failing) ==
  IF ids = {} THEN st
  ELSE LET id == CHOOSE x \in ids : TRUE IN
       cleanupAll(cleanupOf(st, id, failing), ids \ {id}, failing)

\* FileService.cleanupOldSessions(maxAge), the age in clock ticks.
cleanupOldSessions(maxAge, failing) ==
  /\ LET cutoffTime == now - maxAge
         sessionsToCleanup ==
           {s \in DOMAIN uploadSessions :
              uploadSessions[s].exists /\ Older(uploadSessions[s], cutoffTime)}
         c == cleanupAll(StoreState, sessionsToCleanup, failing)
     IN /\ uploadSessions' = c.sessions
        /\ sessionChunks' = c.lists
        /\ chunkFiles' = c.files
        /\ artifacts' = c.arts
        /\ cleanupResponse' =
             [uploadId |-> "sweep", ok |-> TRUE, count |-> Cardinality(sessionsToCleanup)]
        /\ arrival' = [s \in DOMAIN arrival |->
                         IF c.sessions[s].exists THEN arrival[s] ELSE <<>>]
        /\ lastBytes' = [s \in DOMAIN lastBytes |->
                           IF c.sessions[s].exists THEN lastBytes[s]
                           ELSE [i \in 0..MaxIndex |-> Null]]
  /\ UNCHANGED <<now, chunkResponse, createResponse, ingest, jobVars, limiterVars>>

\* ------------------------------------------------------------ OCR jobs
MaxJobs == 1
JobIds == 1..MaxJobs

Attempts == 3
Concurrency == 3

\* Recognised text as a sequence of characters.
Texts == {<<>>, <<" ">>, <<"T">>, <<" ", "T", " ">>}

\* Reports of the recognition engine's logger, m.progress in hundredths.
ProgressReports == {0, 50, 100}

RECURSIVE TrimStart(_)
TrimStart(t) == IF t # <<>> /\ Head(t) = " " THEN TrimStart(Tail(t)) ELSE t

RECURSIVE TrimEnd(_)
TrimEnd(t) ==
  IF t # <<>> /\ t[Len(t)] = " " THEN TrimEnd(SubSeq(t, 1, Len(t) - 1)) ELSE t

\* The text returned as it is.
trimNothing(t) == t

\* String.prototype.trim
trim(t) == TrimEnd(TrimStart(t))

NoJob ==
  [exists |-> FALSE, uploadId |-> "none", status |-> "none", progress |-> 0, stage |-> "none",
   createdAt |-> NoTime, startedAt |-> NoTime, completedAt |-> NoTime,
   result |-> Null, error |-> Null, updatedAt |-> NoTime]

NoStatusCall ==
  [pc |-> "idle", jobId |-> 0, seen |-> NoJob,
   response |-> [jobId |-> 0, error |-> "none", record |-> NoJob, attempts |-> -1]]

Terminal == {"completed", "failed", "cancelled"}

\* The messages of the errors the pipeline can throw.
NoTextMessage == "No text could be extracted from the image"
MissingInputMessage == "Input file is missing"

\* OCRService.getErrorCode
getErrorCode(message) ==
  IF message = NoTextMessage THEN "OCR_FAILED"
  ELSE IF message \in {"Invalid file", "Cannot read"} THEN "INVALID_FILE"
  ELSE IF message = "timeout" THEN "TIMEOUT"
  ELSE "PROCESSING_ERROR"

\* An update that drops the error of an earlier attempt.
updateJobStatusFresh(statuses, jobId, updates) ==
  IF statuses[jobId].exists
    THEN [statuses EXCEPT ![jobId] = [updatedAt |-> now] @@ updates @@ [@ EXCEPT !.error = Null]]
    ELSE statuses

\* OCRService.updateJobStatus: { ...currentStatus, ...updates, updatedAt }
updateJobStatus(statuses, jobId, updates) ==
  IF statuses[jobId].exists
    THEN [statuses EXCEPT ![jobId] = [updatedAt |-> now] @@ updates @@ @]
    ELSE statuses

\* `value || fallback` on numbers: 0 is falsy.
OrElse(value, fallback) == IF value = 0 THEN fallback ELSE value

\* A fallback classification that carries no confidence.
getFallbackNoConfidence == [confidence |-> 0, data |-> Some([vendorName |-> "Unknown Vendor", confidence |-> 0])]

\* The catch branch of ClassificationService.classifyReceipt, with
\* getFallbackClassification.
getFallbackClassification ==
  [confidence |-> 10, data |-> Some([vendorName |-> "Unknown Vendor", confidence |-> 10])]

\* Values of calculateConfidence: Math.min(0.95, Math.max(0.1, score)).
Confidences == {10, 50, 95}

\* ClassificationService.classifyReceipt: the parsed classification with the
\* computed confidence, or the fallback when parsing throws.
classifyReceipt(parsed, confidence) ==
  IF parsed
    THEN [confidence |-> confidence, data |-> Some([vendorName |-> "Parsed", confidence |-> confidence])]
    ELSE getFallbackClassification

Running == {j \in DOMAIN run : run[j].pc # "idle"}

\* Every session passes the checks.
SessionReadyUnchecked(uploadId) == TRUE

\* The checks POST /api/ocr/process makes on the session before a job is
\* created: the controller's (found, completed) and the service's (found,
\* has a combined file).
SessionReady(uploadId) ==
  /\ uploadSessions[uploadId].exists
  /\ uploadSessions[uploadId].status = "completed"
  /\ uploadSessions[uploadId].combinedPath # Null

\* POST /api/ocr/process: the controller's checks, then
\* OCRService.startProcessing; ocrQueue.add may fail after the record is set.
startProcessing(jobId, uploadId, queued) ==
  /\ ~jobStatuses[jobId].exists
  /\ \A k \in DOMAIN jobStatuses : k < jobId => jobStatuses[k].exists
  /\ SessionReady(uploadId)
  /\ jobStatuses' = [jobStatuses EXCEPT ![jobId] =
       [exists |-> TRUE, uploadId |-> uploadId, status |-> "pending", progress |-> 0,
        stage |-> "queued", createdAt |-> now, startedAt |-> NoTime, completedAt |-> NoTime,
        result |-> Null, error |-> Null, updatedAt |-> NoTime]]
  /\ bull' = [bull EXCEPT ![jobId] =
       [state |-> IF queued THEN "waiting" ELSE "none", attemptsMade |-> 0]]
  /\ processResponse' = [uploadId |-> uploadId, error |-> IF queued THEN "none" ELSE "QueueError"]
  /\ UNCHANGED <<now, uploadVars, limiterVars, imageText, optimizedFiles, run, cancelling,
                 cancelResponse, statusCall>>

\* POST /api/ocr/process refused: 404 'Upload session not found', 400
\* 'Upload not complete', or the service's 'No combined file found'.
startProcessingRejected(uploadId) ==
  /\ ~(uploadSessions[uploadId].exists /\ uploadSessions[uploadId].status = "completed"
        /\ uploadSessions[uploadId].combinedPath # Null)
  /\ processResponse' =
       [uploadId |-> uploadId,
        error |-> IF ~uploadSessions[uploadId].exists THEN "SessionNotFound"
                  ELSE IF uploadSessions[uploadId].status # "completed" THEN "SessionNotReady"
                  ELSE "NoCombinedFile"]
  /\ UNCHANGED <<now, uploadVars, limiterVars, imageText, optimizedFiles, jobStatuses, bull, run,
                 cancelling, cancelResponse, statusCall>>

\* A processor that takes every waiting job at once.
SlotAlwaysFree == TRUE

\* ocrQueue.process('processImage', 3, ...): fewer than 3 calls of the
\* processor are running.
SlotFree == Cardinality(Running) < Concurrency

\* The queue hands a waiting job to processImageJob, which marks it active
\* and enters the optimizing stage.
processImageJobStart(jobId) ==
  /\ bull[jobId].state = "waiting"
  /\ SlotFree
  /\ bull' = [bull EXCEPT ![jobId].state = "active"]
  /\ jobStatuses' =
       updateJobStatus(
         updateJobStatus(jobStatuses, jobId, [status |-> "active", startedAt |-> now]),
         jobId, [stage |-> "optimizing", progress |-> 10])
  /\ run' = [run EXCEPT ![jobId] = [pc |-> "optimizing", reported |-> -1, parsed |-> TRUE]]
  /\ UNCHANGED <<now, uploadVars, limiterVars, imageText, optimizedFiles, cancelling, cancelResponse,
                 processResponse, statusCall>>

\* The catch block of processImageJob: the job is marked failed and the
\* error rethrown, after which the queue retries while attempts remain.
Throw(jobId, message) ==
  /\ jobStatuses' =
       updateJobStatus(jobStatuses, jobId,
         [status |-> "failed", completedAt |-> now,
          error |-> Some([code |-> getErrorCode(message), message |-> message])])
  /\ bull' = [bull EXCEPT ![jobId] =
       IF @.state = "removed" THEN @
       ELSE [state |-> IF @.attemptsMade + 1 < Attempts THEN "waiting" ELSE "failed",
             attemptsMade |-> @.attemptsMade + 1]]
  /\ run' = [run EXCEPT ![jobId].pc = "idle"]

\* optimizeImageForOCR returns (or sharp throws on a missing input file).
optimizeDone(jobId) ==
  /\ run[jobId].pc = "optimizing"
  /\ LET u == jobStatuses[jobId].uploadId IN
     IF artifacts[u] = Null
       THEN /\ Throw(jobId, MissingInputMessage)
            /\ UNCHANGED optimizedFiles
       ELSE /\ optimizedFiles' = [optimizedFiles EXCEPT ![u] = TRUE]
            /\ jobStatuses' =
                 updateJobStatus(
                   updateJobStatus(jobStatuses, jobId, [progress |-> 20]),
                   jobId, [stage |-> "extracting", progress |-> 30])
            /\ run' = [run EXCEPT ![jobId].pc = "extracting"]
            /\ UNCHANGED bull
  /\ UNCHANGED <<now, uploadVars, limiterVars, imageText, cancelling, cancelResponse,
                 processResponse, statusCall>>

\* The recognition engine reports progress; the callback maps it to 30%..70%.
extractProgress(jobId, progress) ==
  /\ run[jobId].pc = "extracting"
  /\ progress > run[jobId].reported
  /\ jobStatuses' = updateJobStatus(jobStatuses, jobId, [progress |-> 30 + (progress * 40) \div 100])
  /\ run' = [run EXCEPT ![jobId].reported = progress]
  /\ UNCHANGED <<now, uploadVars, limiterVars, imageText, optimizedFiles, bull, cancelling, cancelResponse,
                 processResponse, statusCall>>

\* extractTextFromImage returns the trimmed text, or throws on empty text.
extractDone(jobId) ==
  /\ run[jobId].pc = "extracting"
  /\ LET u == jobStatuses[jobId].uploadId
         text == imageText[u]
     IN IF ~optimizedFiles[u]
          THEN Throw(jobId, MissingInputMessage)
        ELSE IF text = <<>> \/ Len(trim(text)) = 0
          THEN Throw(jobId, NoTextMessage)
        ELSE /\ jobStatuses' =
                  updateJobStatus(
                    updateJobStatus(jobStatuses, jobId, [progress |-> 70]),
                    jobId, [stage |-> "classifying", progress |-> 75])
             /\ run' = [run EXCEPT ![jobId].pc = "classifying"]
             /\ UNCHANGED bull
  /\ UNCHANGED <<now, uploadVars, limiterVars, imageText, optimizedFiles, cancelling, cancelResponse,
                 processResponse, statusCall>>

\* classifyReceipt returns; the result is assembled and the job completed.
classifyDone(jobId, parsed, confidence) ==
  /\ run[jobId].pc = "classifying"
  /\ LET u == jobStatuses[jobId].uploadId
         classification == classifyReceipt(parsed, confidence)
         result == [extractedText |-> trim(imageText[u]),
                    confidence |-> OrElse(classification.confidence, 80),
                    classification |-> classification.data,
                    processedAt |-> now]
     IN jobStatuses' =
          updateJobStatus(
            updateJobStatus(jobStatuses, jobId, [progress |-> 90]),
            jobId, [status |-> "completed", progress |-> 100, completedAt |-> now,
                    result |-> Some(result)])
  /\ run' = [run EXCEPT ![jobId].pc = "cleanup", ![jobId].parsed = parsed]
  /\ UNCHANGED <<now, uploadVars, limiterVars, imageText, optimizedFiles, bull, cancelling, cancelResponse,
                 processResponse, statusCall>>

\* cleanupFiles([imagePath, optimizedPath]) and the processor's return.
cleanupDone(jobId) ==
  /\ run[jobId].pc = "cleanup"
  /\ LET u == jobStatuses[jobId].uploadId IN
     /\ artifacts' = [artifacts EXCEPT ![u] = Null]
     /\ optimizedFiles' = [optimizedFiles EXCEPT ![u] = FALSE]
  /\ bull' = [bull EXCEPT ![jobId].state = IF @ = "removed" THEN @ ELSE "completed"]
  /\ run' = [run EXCEPT ![jobId].pc = "idle"]
  /\ UNCHANGED <<now, uploadSessions, sessionChunks, chunkFiles, chunkResponse, cleanupResponse,
                 createResponse, ingest, arrival,
                 lastBytes, imageText, jobStatuses, cancelling, cancelResponse,
                 processResponse, statusCall, limiterVars>>

\* DELETE /api/ocr/job/:jobId up to the status check of cancelJob; the
\* queue lookup and removal are awaited before the record is written.
cancelJobCheck(jobId) ==
  /\ jobStatuses[jobId].exists
  /\ jobStatuses[jobId].status \notin {"completed", "failed"}
  /\ cancelling[jobId] = "no"
  /\ cancelling' = [cancelling EXCEPT ![jobId] = jobStatuses[jobId].status]
  /\ UNCHANGED <<now, uploadVars, limiterVars, imageText, optimizedFiles, jobStatuses, bull, run,
                 cancelResponse, processResponse, statusCall>>

\* cancelJob on an unknown job ('Job not found') or on a completed or failed
\* one ('Cannot cancel ... job'): the call throws before any write.
cancelJobRejected(jobId) ==
  /\ \/ ~jobStatuses[jobId].exists
     \/ jobStatuses[jobId].status \in {"completed", "failed"}
  /\ cancelResponse' =
       [jobId |-> jobId, seen |-> jobStatuses[jobId].status,
        error |-> IF ~jobStatuses[jobId].exists THEN "NotFound" ELSE "InvalidState"]
  /\ UNCHANGED <<now, uploadVars, limiterVars, imageText, optimizedFiles, jobStatuses, bull, run,
                 cancelling, processResponse, statusCall>>

\* cancelJob after its awaits: the queue's job is removed and the record is
\* written as cancelled.
cancelJobApply(jobId) ==
  /\ cancelling[jobId] # "no"
  /\ cancelling' = [cancelling EXCEPT ![jobId] = "no"]
  /\ bull' = [bull EXCEPT ![jobId].state = IF @ = "none" THEN @ ELSE "removed"]
  /\ jobStatuses' =
       updateJobStatus(jobStatuses, jobId,
         [status |-> "cancelled", completedAt |-> now,
          error |-> Some([code |-> "CANCELLED", message |-> "Job cancelled by user"])])
  /\ cancelResponse' = [jobId |-> jobId, seen |-> cancelling[jobId], error |-> "none"]
  /\ UNCHANGED <<now, uploadVars, limiterVars, imageText, optimizedFiles, run, processResponse,
                 statusCall>>

\* The snapshot with its progress read again at the time of the answer.
SnapshotRefreshed(call) == [call.seen EXCEPT !.progress = jobStatuses[call.jobId].progress]

\* The object returned is built from `status`, the record read when the
\* call started.
Snapshot(call) == call.seen

\* GET /api/ocr/status/:jobId on an unknown id: 404 'Job not found'.
getJobStatusNotFound(jobId) ==
  /\ statusCall.pc = "idle"
  /\ ~jobStatuses[jobId].exists
  /\ statusCall' = [statusCall EXCEPT
       !.response = [jobId |-> jobId, error |-> "NotFound", record |-> NoJob, attempts |-> -1]]
  /\ UNCHANGED <<now, uploadVars, limiterVars, imageText, optimizedFiles, jobStatuses, bull, run,
                 cancelling, cancelResponse, processResponse>>

\* GET /api/ocr/status/:jobId up to the await of ocrQueue.getJob: the
\* record is read from the map.
getJobStatusBegin(jobId) ==
  /\ statusCall.pc = "idle"
  /\ jobStatuses[jobId].exists
  /\ statusCall' = [statusCall EXCEPT !.pc = "waiting", !.jobId = jobId,
                                      !.seen = jobStatuses[jobId]]
  /\ UNCHANGED <<now, uploadVars, limiterVars, imageText, optimizedFiles, jobStatuses, bull, run,
                 cancelling, cancelResponse, processResponse>>

\* The queue lookup has returned (or thrown, which is swallowed): the
\* record read at the start is answered, with the queue's attempt count
\* when the queue still has the job.
getJobStatusReturn(queueOk) ==
  /\ statusCall.pc = "waiting"
  /\ LET j == statusCall.jobId
         found == queueOk /\ bull[j].state \notin {"none", "removed"}
     IN statusCall' = [statusCall EXCEPT
          !.pc = "idle",
          !.response = [jobId |-> j, error |-> "none", record |-> Snapshot(statusCall),
                        attempts |-> IF found THEN bull[j].attemptsMade ELSE -1]]
  /\ UNCHANGED <<now, uploadVars, limiterVars, imageText, optimizedFiles, jobStatuses, bull, run,
                 cancelling, cancelResponse, processResponse>>

\* ----------------------------------------------------------- rate limiter
Keys == {"ip1", "ip2"}

\* The policy app.js mounts on /api/ocr, scaled: window length in clock
\* ticks (milliseconds) and requests allowed per window.
WindowMs == 2
MaxRequests == 2
MaxCalls == 5

RECURSIVE TotalCalls(_, _)
TotalCalls(history, keys) ==
  IF keys = {} THEN 0
  ELSE LET k == CHOOSE x \in keys : TRUE IN Len(history[k]) + TotalCalls(history, keys \ {k})

NoClient == [present |-> FALSE, count |-> 0, resetTime |-> NoTime]

\* The window test with the boundary instant counted as expired.
ExpiredAtBoundary(key, time) ==
  \/ ~clients[key].present
  \/ resetTime[key] = NoTime
  \/ time >= resetTime[key]

\* The test of MemoryStore.increment for opening a new window.
Expired(key, time) ==
  \/ ~clients[key].present
  \/ resetTime[key] = NoTime
  \/ time > resetTime[key]

\* A sliding window: every call within the window moves its end.
incrementSliding(key, ttl) ==
  IF Expired(key, now)
    THEN [present |-> TRUE, count |-> 1, resetTime |-> now + ttl]
    ELSE [clients[key] EXCEPT !.count = @ + 1, !.resetTime = now + ttl]

\* MemoryStore.increment(key, ttl): the stored value after the call.
increment(key, ttl) ==
  IF Expired(key, now)
    THEN [present |-> TRUE, count |-> 1, resetTime |-> now + ttl]
    ELSE [clients[key] EXCEPT !.count = @ + 1]

Max0(a, b) == IF a >= b THEN a ELSE b

\* The count compared with one maximum for all limiters.
OverTightLimit(count, max) == count > MaxRequests

\* count > max, the limiter's own maximum.
OverLimit(count, max) == count > max

\* The middleware returned by createRateLimiter({ windowMs, max }).
rateLimiter(key, windowMs, max) ==
  /\ TotalCalls(admitHistory, Keys) < MaxCalls
  /\ LET expired == Expired(key, now)
         result == increment(key, windowMs)
         msBeforeNext == Max0(0, result.resetTime - now)
         remaining == Max0(0, max - result.count)
         limited == OverLimit(result.count, max)
     IN /\ clients' = [clients EXCEPT ![key] = result]
        /\ resetTime' = IF expired THEN [resetTime EXCEPT ![key] = now + windowMs] ELSE resetTime
        /\ admitResponse' =
             [key |-> key, allowed |-> ~limited,
              code |-> IF limited THEN "RATE_LIMITED" ELSE "none",
              count |-> result.count, remaining |-> remaining, resetTime |-> result.resetTime,
              retryAfter |-> IF limited THEN Ceil(msBeforeNext, 1000) ELSE NoTime]
        /\ admitHistory' = [admitHistory EXCEPT ![key] =
             Append(@, [time |-> now, allowed |-> ~limited,
                        code |-> IF limited THEN "RATE_LIMITED" ELSE "none"])]
  /\ UNCHANGED <<now, uploadVars, jobVars>>

\* A limiter that answers a failed store call with a denial.
FailClosed(key) ==
  [key |-> key, allowed |-> FALSE, code |-> "RATE_LIMITED", count |-> 0, remaining |-> 0,
   resetTime |-> NoTime, retryAfter |-> NoTime]

\* The catch branch of the middleware: the error is logged and next() is
\* called with no argument; no header has been set.
FailOpen(key) ==
  [key |-> key, allowed |-> TRUE, code |-> "none", count |-> 0, remaining |-> 0,
   resetTime |-> NoTime, retryAfter |-> NoTime]

\* The middleware when store.increment throws (a store other than the
\* in-memory one can): nothing is counted and the catch branch answers.
rateLimiterStoreError(key) ==
  /\ TotalCalls(admitHistory, Keys) < MaxCalls
  /\ admitResponse' = FailOpen(key)
  /\ admitHistory' = [admitHistory EXCEPT ![key] =
       Append(@, [time |-> now, allowed |-> FailOpen(key).allowed, code |-> FailOpen(key).code])]
  /\ UNCHANGED <<now, uploadVars, jobVars, clients, resetTime>>

\* A purge that also drops the entries whose window ends at this instant.
PurgedAtBoundary(key) == resetTime[key] # NoTime /\ now >= resetTime[key]

\* The test of MemoryStore.cleanup on an entry of the resetTime map.
Purged(key) == resetTime[key] # NoTime /\ now > resetTime[key]

\* MemoryStore.cleanup, run every five minutes.
cleanup ==
  /\ \E k \in Keys : Purged(k)
  /\ clients' = [k \in Keys |-> IF Purged(k) THEN NoClient ELSE clients[k]]
  /\ resetTime' = [k \in Keys |-> IF Purged(k) THEN NoTime ELSE resetTime[k]]
  /\ UNCHANGED <<now, uploadVars, jobVars, admitResponse, admitHistory>>

Tick ==
  /\ now < MaxNow
  /\ now' = now + 1
  /\ UNCHANGED <<uploadVars, jobVars, limiterVars>>

InitUpload ==
  /\ uploadSessions = [s \in SessionIds |-> NoSession]
  /\ sessionChunks = [s \in SessionIds |-> NoList]
  /\ chunkFiles = [p \in ChunkPaths |-> NoFile]
  /\ artifacts = [s \in SessionIds |-> Null]
  /\ chunkResponse = [uploadId |-> "none", error |-> "none", receivedChunks |-> 0, complete |-> FALSE]
  /\ cleanupResponse = NoCleanup
  /\ createResponse = NoCreate
  /\ ingest = NoIngest
  /\ arrival = [s \in SessionIds |-> <<>>]
  /\ lastBytes = [s \in SessionIds |-> [i \in 0..MaxIndex |-> Null]]

InitJobsOf(ids) ==
  /\ optimizedFiles = [s \in SessionIds |-> FALSE]
  /\ jobStatuses = [j \in ids |-> NoJob]
  /\ bull = [j \in ids |-> [state |-> "none", attemptsMade |-> 0]]
  /\ run = [j \in ids |-> [pc |-> "idle", reported |-> -1, parsed |-> TRUE]]
  /\ cancelling = [j \in ids |-> "no"]
  /\ cancelResponse = [jobId |-> 0, seen |-> "none", error |-> "none"]
  /\ processResponse = [uploadId |-> "none", error |-> "none"]
  /\ statusCall = NoStatusCall

InitJobs == InitJobsOf(JobIds)

InitLimiter ==
  /\ clients = [k \in Keys |-> NoClient]
  /\ resetTime = [k \in Keys |-> NoTime]
  /\ admitResponse = [key |-> "none", allowed |-> TRUE, code |-> "none", count |-> 0,
                      remaining |-> 0, resetTime |-> NoTime, retryAfter |-> NoTime]
  /\ admitHistory = [k \in Keys |-> <<>>]

Init ==
  /\ now = 0
  /\ InitUpload
  /\ imageText = [s \in SessionIds |-> <<"T">>]
  /\ InitJobs
  /\ InitLimiter

NextUpload ==
  \/ \E s \in SessionIds, f \in 1..MaxFileSize, c \in 1..MaxChunkSize :
       createUploadSession(s, f, c)
  \/ \E s \in SessionIds : uploadChunkRejected(s)
  \/ \E s \in SessionIds, r \in RawIndices, t \in 1..MaxTotal, b \in Bytes :
       uploadChunk(s, r, t, b)

SpecUpload == Init /\ [][NextUpload]_vars

\* The upload endpoints driven by a client that sends plain decimal chunk
\* indices and chunks of one content.
NextIngest ==
  \/ \E s \in SessionIds, f \in 1..MaxFileSize, c \in 1..MaxChunkSize :
       createUploadSession(s, f, c)
  \/ \E s \in SessionIds : uploadChunkRejected(s)
  \/ \E s \in SessionIds, n \in 0..MaxIndex, t \in 1..MaxTotal :
       uploadChunk(s, [num |-> n, form |-> "plain"], t, "a")

SpecIngest == Init /\ [][NextIngest]_vars

\* Two sessions, each uploaded by a client that sends its two chunks in
\* order, with the cleanup operations and the clock.
SweepAges == {1, 2}

InitSweep ==
  /\ now = 0
  /\ uploadSessions = [s \in SweepSessions |-> NoSession]
  /\ sessionChunks = [s \in SweepSessions |-> NoList]
  /\ chunkFiles = [p \in {ChunkPath(s, r) : s \in SweepSessions, r \in RawIndices} |-> NoFile]
  /\ artifacts = [s \in SweepSessions |-> Null]
  /\ chunkResponse = [uploadId |-> "none", error |-> "none", receivedChunks |-> 0, complete |-> FALSE]
  /\ cleanupResponse = NoCleanup
  /\ createResponse = NoCreate
  /\ ingest = NoIngest
  /\ arrival = [s \in SweepSessions |-> <<>>]
  /\ lastBytes = [s \in SweepSessions |-> [i \in 0..MaxIndex |-> Null]]
  /\ imageText = [s \in SessionIds |-> <<"T">>]
  /\ InitJobs
  /\ InitLimiter

NextSweep ==
  \/ \E s \in SweepSessions : createUploadSession(s, 2, 1)
  \/ \E s \in SweepSessions :
       uploadChunk(s, [num |-> Len(sessionChunks[s].list), form |-> "plain"], 2, "a")
  \/ \E s \in SweepSessions, failing \in SUBSET DeletableFiles : cleanupSession(s, failing)
  \/ \E maxAge \in SweepAges, failing \in SUBSET DeletableFiles :
       cleanupOldSessions(maxAge, failing)
  \/ Tick

SpecSweep == InitSweep /\ [][NextSweep]_vars

\* The bounds of requestValidation.js, in bytes.
MinFileSize == 1024
MaxAllowedFileSize == 52428800
MinChunkSize == 65536
MaxAllowedChunkSize == 5242880

\* Session creation alone, with sizes in bytes on both sides of each bound;
\* 0 stands for a field absent from the body.
FileSizes == {0, MinFileSize - 1, MinFileSize, 3000, MaxAllowedFileSize, MaxAllowedFileSize + 1}
ChunkSizes == {0, 1000, MinChunkSize - 1, MinChunkSize, MaxAllowedChunkSize,
               MaxAllowedChunkSize + 1}

NextCreate ==
  \/ \E s \in SweepSessions, f \in FileSizes, c \in ChunkSizes : createUploadSession(s, f, c)
  \/ \E h \in BOOLEAN, f \in FileSizes : createUploadSessionRejected(h, f)

SpecCreate == InitSweep /\ [][NextCreate]_vars

\* The job engine, started from a session whose three chunks have been
\* combined (a state SpecUpload reaches).
\* Every session is completed, with its three chunks combined.
CompletedUpload ==
  /\ now = 0
  /\ uploadSessions = [s \in SessionIds |->
       [exists |-> TRUE, fileSize |-> 3, chunkSize |-> 1, maxChunks |-> 3, receivedChunks |-> 3,
        status |-> "completed", combinedPath |-> Some(s), createdAt |-> 0]]
  /\ sessionChunks = [s \in SessionIds |->
       [present |-> TRUE,
        list |-> [i \in 1..3 |->
                   [index |-> i - 1, path |-> ChunkPath(s, [num |-> i - 1, form |-> "plain"]),
                    size |-> 1]]]]
  /\ chunkFiles = [p \in ChunkPaths |-> NoFile]
  /\ artifacts = [s \in SessionIds |-> Some(<<"a", "a", "a">>)]
  /\ chunkResponse = [uploadId |-> "u1", error |-> "none", receivedChunks |-> 3, complete |-> TRUE]
  /\ cleanupResponse = NoCleanup
  /\ createResponse = NoCreate
  /\ ingest = NoIngest
  /\ arrival = [s \in SessionIds |-> <<0, 1, 2>>]
  /\ lastBytes = [s \in SessionIds |-> [i \in 0..MaxIndex |-> IF i < 3 THEN Some("a") ELSE Null]]

InitCompletedUpload ==
  /\ CompletedUpload
  /\ imageText \in [SessionIds -> Texts]
  /\ InitJobs
  /\ InitLimiter

\* A session that has received two of its three chunks (a state SpecUpload
\* reaches).
InitIncompleteUpload ==
  /\ now = 0
  /\ uploadSessions = [s \in SessionIds |->
       [exists |-> TRUE, fileSize |-> 3, chunkSize |-> 1, maxChunks |-> 3, receivedChunks |-> 2,
        status |-> "uploading", combinedPath |-> Null, createdAt |-> 0]]
  /\ sessionChunks = [s \in SessionIds |->
       [present |-> TRUE,
        list |-> [i \in 1..2 |->
                   [index |-> i - 1, path |-> ChunkPath(s, [num |-> i - 1, form |-> "plain"]),
                    size |-> 1]]]]
  /\ chunkFiles = [p \in ChunkPaths |->
       IF p[2].form = "plain" /\ p[2].num < 2 THEN <<"a">> ELSE NoFile]
  /\ artifacts = [s \in SessionIds |-> Null]
  /\ chunkResponse = [uploadId |-> "u1", error |-> "none", receivedChunks |-> 2, complete |-> FALSE]
  /\ cleanupResponse = NoCleanup
  /\ createResponse = NoCreate
  /\ ingest = NoIngest
  /\ arrival = [s \in SessionIds |-> <<0, 1>>]
  /\ lastBytes = [s \in SessionIds |-> [i \in 0..MaxIndex |-> IF i < 2 THEN Some("a") ELSE Null]]
  /\ imageText = [s \in SessionIds |-> <<"T">>]
  /\ InitJobs
  /\ InitLimiter

\* The job engine starts with the session completed, still uploading, or
\* not created.
InitJobEngine ==
  \/ InitCompletedUpload
  \/ InitIncompleteUpload
  \/ Init

NextJobs ==
  \/ \E j \in JobIds, u \in SessionIds, queued \in BOOLEAN : startProcessing(j, u, queued)
  \/ \E u \in SessionIds : startProcessingRejected(u)
  \/ \E j \in JobIds : processImageJobStart(j)
  \/ \E j \in JobIds : optimizeDone(j)
  \/ \E j \in JobIds, p \in ProgressReports : extractProgress(j, p)
  \/ \E j \in JobIds : extractDone(j)
  \/ \E j \in JobIds, parsed \in BOOLEAN, c \in Confidences : classifyDone(j, parsed, c)
  \/ \E j \in JobIds : cleanupDone(j)
  \/ \E j \in JobIds : cancelJobCheck(j)
  \/ \E j \in JobIds : cancelJobRejected(j)
  \/ \E j \in JobIds : cancelJobApply(j)

SpecJobs == InitJobEngine /\ [][NextJobs]_vars

\* The job engine with a fair queue and collaborators that return: a
\* waiting job is eventually handed to the processor, each awaited stage
\* eventually returns, and a cancel call's awaits eventually return.
\* Requests of clients are under no obligation.
FairJobs ==
  \A j \in JobIds :
    /\ WF_vars(processImageJobStart(j))
    /\ WF_vars(optimizeDone(j))
    /\ WF_vars(extractDone(j))
    /\ WF_vars(\E parsed \in BOOLEAN, c \in Confidences : classifyDone(j, parsed, c))
    /\ WF_vars(cleanupDone(j))
    /\ WF_vars(cancelJobApply(j))

SpecJobsFair == InitJobEngine /\ [][NextJobs]_vars /\ FairJobs

\* Submission and the pipeline alone, with no cancel requests.
NextSubmit ==
  \/ \E j \in JobIds, u \in SessionIds, queued \in BOOLEAN : startProcessing(j, u, queued)
  \/ \E u \in SessionIds : startProcessingRejected(u)
  \/ \E j \in JobIds : processImageJobStart(j)
  \/ \E j \in JobIds : optimizeDone(j)
  \/ \E j \in JobIds, p \in ProgressReports : extractProgress(j, p)
  \/ \E j \in JobIds : extractDone(j)
  \/ \E j \in JobIds, parsed \in BOOLEAN, c \in Confidences : classifyDone(j, parsed, c)
  \/ \E j \in JobIds : cleanupDone(j)

SpecSubmit == InitJobEngine /\ [][NextSubmit]_vars

\* One client's whole path: a session for a file of 3000 bytes in chunks
\* of 1000, its chunks sent with plain indices, then submission and the
\* pipeline.
NextScenario ==
  \/ createUploadSession("u1", 3000, 1000)
  \/ \E n \in 0..MaxIndex : uploadChunk("u1", [num |-> n, form |-> "plain"], 3, "a")
  \/ \E s \in SessionIds : uploadChunkRejected(s)
  \/ NextSubmit

InitScenario ==
  /\ now = 0
  /\ InitUpload
  /\ imageText \in [SessionIds -> Texts]
  /\ InitJobs
  /\ InitLimiter

SpecScenario == InitScenario /\ [][NextScenario]_vars

\* The calls of combineChunks made so far.
RECURSIVE CombineCalls(_)
CombineCalls(rs) ==
  IF rs = {} THEN 0
  ELSE LET r == CHOOSE x \in rs : TRUE IN ingest[r].calls + CombineCalls(rs \ {r})

\* The upload endpoints with two POST /chunk calls that can overlap, driven
\* by a client that sends each index of the session once, with the
\* session's chunk count as totalChunks.
FreshIndex(uploadId, n) ==
  /\ n < uploadSessions[uploadId].maxChunks
  /\ n \notin {arrival[uploadId][i] : i \in 1..Len(arrival[uploadId])}
  /\ \A o \in Requests :
       ingest[o].pc # "idle" /\ ingest[o].uploadId = uploadId => ingest[o].raw.num # n

NextConcurrent ==
  \/ \E s \in SessionIds, f \in 1..MaxFileSize, c \in 1..MaxChunkSize :
       createUploadSession(s, f, c)
  \/ \E r \in Requests, s \in SessionIds, n \in 0..MaxIndex, b \in Bytes :
       /\ FreshIndex(s, n)
       /\ uploadChunkBegin(r, s, [num |-> n, form |-> "plain"], uploadSessions[s].maxChunks, b)
  \/ \E r \in Requests : uploadChunkRenamed(r)
  \/ \E r \in Requests : uploadChunkCombined(r)

SpecConcurrent == Init /\ [][NextConcurrent]_vars

\* Two jobs that can be submitted for the same completed session, with the
\* pipeline and no cancel requests.
PairJobs == {1, 2}

InitPair ==
  /\ CompletedUpload
  /\ imageText \in [SessionIds -> Texts]
  /\ InitJobsOf(PairJobs)
  /\ InitLimiter

NextPair ==
  \/ \E j \in PairJobs, u \in SessionIds : startProcessing(j, u, TRUE)
  \/ \E j \in PairJobs : processImageJobStart(j)
  \/ \E j \in PairJobs : optimizeDone(j)
  \/ \E j \in PairJobs : extractDone(j)
  \/ \E j \in PairJobs, parsed \in BOOLEAN, c \in Confidences : classifyDone(j, parsed, c)
  \/ \E j \in PairJobs : cleanupDone(j)

SpecPair == InitPair /\ [][NextPair]_vars

\* Submission and the pipeline with a client polling the job's status.
NextStatus ==
  \/ NextSubmit
  \/ \E j \in JobIds : getJobStatusNotFound(j)
  \/ \E j \in JobIds : getJobStatusBegin(j)
  \/ \E queueOk \in BOOLEAN : getJobStatusReturn(queueOk)

SpecStatus == InitJobEngine /\ [][NextStatus]_vars

\* Overlapping POST /chunk calls on a session of two chunks, with cleanup
\* calls and sweeps that arrive while no copy loop is running; sessions are
\* created until the first reassembly is attempted.
NoCopyRunning == \A r \in Requests : ingest[r].pc # "combining"

NextRace ==
  \/ \E s \in SessionIds : CombineCalls(Requests) = 0 /\ createUploadSession(s, 2, 1)
  \/ \E r \in Requests, s \in SessionIds, n \in 0..1 :
       /\ FreshIndex(s, n)
       /\ uploadChunkBegin(r, s, [num |-> n, form |-> "plain"], 2, "a")
  \/ \E r \in Requests : uploadChunkRenamed(r)
  \/ \E r \in Requests : uploadChunkCombined(r)
  \/ \E s \in SessionIds : NoCopyRunning /\ cleanupSession(s, {})
  \/ \E maxAge \in SweepAges : NoCopyRunning /\ cleanupOldSessions(maxAge, {})
  \/ Tick

SpecRace == Init /\ [][NextRace]_vars

\* One job more than the processor runs at once, all on the completed
\* session, with a classification that parses.
PoolJobs == 1..(Concurrency + 1)

InitPool ==
  /\ CompletedUpload
  /\ imageText = [s \in SessionIds |-> <<"T">>]
  /\ InitJobsOf(PoolJobs)
  /\ InitLimiter

NextPool ==
  \/ \E j \in PoolJobs, u \in SessionIds : startProcessing(j, u, TRUE)
  \/ \E j \in PoolJobs : processImageJobStart(j)
  \/ \E j \in PoolJobs : optimizeDone(j)
  \/ \E j \in PoolJobs : extractDone(j)
  \/ \E j \in PoolJobs : classifyDone(j, TRUE, 90)
  \/ \E j \in PoolJobs : cleanupDone(j)

SpecPool == InitPool /\ [][NextPool]_vars

NextLimiter ==
  \/ \E k \in Keys : rateLimiter(k, WindowMs, MaxRequests)
  \/ cleanup
  \/ Tick

SpecLimiter == Init /\ [][NextLimiter]_vars

\* Two limiters created without a store of their own, a tight one and a
\* wide one, in front of the same clients.
Policies ==
  {[windowMs |-> WindowMs, max |-> MaxRequests],
   [windowMs |-> WindowMs + 1, max |-> MaxRequests + 1]}

NextPolicies ==
  \/ \E k \in Keys, p \in Policies : rateLimiter(k, p.windowMs, p.max)
  \/ cleanup
  \/ Tick

SpecPolicies == Init /\ [][NextPolicies]_vars

\* The limiter over a store whose increment can throw.
NextLimiterFaults ==
  \/ NextLimiter
  \/ \E k \in Keys : rateLimiterStoreError(k)

SpecLimiterFaults == Init /\ [][NextLimiterFaults]_vars

\* ------------------------------------------------------------ properties
ReceivedIndices(s) == {arrival[s][i] : i \in 1..Len(arrival[s])}
ExpectedIndices(s) == 0..(uploadSessions[s].maxChunks - 1)

\* C1: a session is completed if and only if every index in
\* [0, expectedChunkCount) has been ingested, and an ingest that brings the
\* count to expectedChunkCount with an index missing is refused as an
\* incomplete upload.
C1_CompletedIffAllIndicesIngested ==
  \A s \in SessionIds :
    uploadSessions[s].exists =>
      /\ (uploadSessions[s].status = "completed") <=> (ExpectedIndices(s) \subseteq ReceivedIndices(s))
      /\ ( /\ chunkResponse.uploadId = s
           /\ chunkResponse.receivedChunks = uploadSessions[s].maxChunks
           /\ ~(ExpectedIndices(s) \subseteq ReceivedIndices(s)) )
         => chunkResponse.error = "MissingChunks"

\* C5: while a session is uploading its received count is the number of
\* distinct indices received, so re-ingesting an index replaces the stored
\* chunk and leaves the count unchanged.
C5_CountIsDistinctIndices ==
  \A s \in SessionIds :
    uploadSessions[s].status = "uploading" =>
      /\ uploadSessions[s].receivedChunks = Cardinality(ReceivedIndices(s))
      /\ Len(sessionChunks[s].list) = Cardinality(ReceivedIndices(s))

\* C6: when all chunks of a session have arrived, in any order, the artifact
\* is the chunks' bytes concatenated in ascending index order.
C6_ArtifactInIndexOrder ==
  \A s \in SessionIds :
    (uploadSessions[s].status = "completed" /\ ReceivedIndices(s) = ExpectedIndices(s)) =>
      artifacts[s] = Some([i \in 1..uploadSessions[s].maxChunks |-> lastBytes[s][i - 1][1]])

C6_Witness ==
  \E s \in SessionIds :
    /\ uploadSessions[s].status = "completed"
    /\ arrival[s] = <<2, 0, 1>>
    /\ artifacts[s] = Some(<<"a", "b", "a">>)

IsBlank(t) == \A i \in 1..Len(t) : t[i] = " "
ImageTextOf(j) == imageText[jobStatuses[j].uploadId]

\* C2: a job's status never changes once it is completed, failed or
\* cancelled.
C2_TerminalStatusImmutable ==
  [][\A j \in JobIds :
       jobStatuses[j].status \in Terminal => jobStatuses'[j].status = jobStatuses[j].status]_vars

\* C3: a pending or active job has neither result nor error; a completed
\* job has a result and no error; a failed or cancelled job has an error
\* and no result.
C3_ResultXorError ==
  \A j \in JobIds :
    jobStatuses[j].exists =>
      /\ jobStatuses[j].status \in {"pending", "active"} =>
           (jobStatuses[j].result = Null /\ jobStatuses[j].error = Null)
      /\ jobStatuses[j].status = "completed" =>
           (jobStatuses[j].result # Null /\ jobStatuses[j].error = Null)
      /\ jobStatuses[j].status \in {"failed", "cancelled"} =>
           (jobStatuses[j].result = Null /\ jobStatuses[j].error # Null)

\* C4: the progress of a job never decreases in a step that starts or ends
\* in a non-terminal status, re-executions of the pipeline included.
C4_ProgressNeverDecreases ==
  [][\A j \in JobIds :
       ( /\ jobStatuses[j].exists
         /\ (jobStatuses[j].status \notin Terminal \/ jobStatuses'[j].status \notin Terminal) )
       => jobStatuses'[j].progress >= jobStatuses[j].progress]_vars

\* C8: when the recognition stage returns empty or whitespace-only text the
\* run ends with the job failed with code OCR_FAILED, and a job on such an
\* image is never completed.
C8_BlankTextFails ==
  [][\A j \in JobIds :
       /\ ( /\ run[j].pc = "extracting"
            /\ run'[j].pc # "extracting"
            /\ optimizedFiles[jobStatuses[j].uploadId]
            /\ IsBlank(ImageTextOf(j)) )
          => ( /\ jobStatuses'[j].status = "failed"
               /\ jobStatuses'[j].error # Null
               /\ jobStatuses'[j].error[1].code = "OCR_FAILED" )
       /\ (jobStatuses'[j].status = "completed" /\ jobStatuses'[j].exists)
          => ~IsBlank(imageText'[jobStatuses'[j].uploadId])]_vars

C8_Witness ==
  \E j \in JobIds :
    /\ jobStatuses[j].status = "failed"
    /\ jobStatuses[j].error = Some([code |-> "OCR_FAILED", message |-> NoTextMessage])
    /\ ImageTextOf(j) = <<" ">>
    /\ bull[j] = [state |-> "failed", attemptsMade |-> Attempts]

\* C9: when classification fails after a successful extraction, the run
\* still completes the job, with a non-null fallback classification and a
\* result confidence of at most 0.2.
C9_ClassificationFailureDegrades ==
  [][\A j \in JobIds :
       (run[j].pc = "classifying" /\ run'[j].pc = "cleanup" /\ ~run'[j].parsed)
       => ( /\ jobStatuses'[j].status = "completed"
            /\ jobStatuses'[j].result # Null
            /\ jobStatuses'[j].result[1].classification # Null
            /\ jobStatuses'[j].result[1].confidence <= 20 )]_vars

C9_Witness ==
  \E j \in JobIds :
    /\ run[j].pc = "cleanup"
    /\ ~run[j].parsed
    /\ jobStatuses[j].status = "completed"
    /\ jobStatuses[j].result # Null
    /\ jobStatuses[j].result[1].confidence = 10

\* C10: a cancel call on a job that is pending or active ends with the job
\* cancelled, with error code CANCELLED, a completion timestamp and a null
\* result.
C10_CancelYieldsCancelled ==
  [][\A j \in JobIds :
       (cancelling[j] \in {"pending", "active"} /\ cancelling'[j] = "no")
       => ( /\ jobStatuses'[j].status = "cancelled"
            /\ jobStatuses'[j].error # Null
            /\ jobStatuses'[j].error[1].code = "CANCELLED"
            /\ jobStatuses'[j].completedAt # NoTime
            /\ jobStatuses'[j].result = Null )]_vars

\* The request that opened the window request i of history h falls in: a
\* window is opened by the first request, and by the first request made
\* after the previous window's reset time.
RECURSIVE WindowOpener(_, _)
WindowOpener(h, i) ==
  IF i = 1 THEN 1
  ELSE LET o == WindowOpener(h, i - 1) IN
       IF h[i].time > h[o].time + WindowMs THEN i ELSE o

PlaceInWindow(h, i) == i - WindowOpener(h, i) + 1

\* C7: for every key, requests 1..max of a window are admitted and every
\* further request of that window is denied with RATE_LIMITED; the first
\* request after the window has expired opens a new window and is admitted.
C7_AtMostMaxPerWindow ==
  \A k \in Keys : \A i \in 1..Len(admitHistory[k]) :
    /\ admitHistory[k][i].allowed <=> (PlaceInWindow(admitHistory[k], i) <= MaxRequests)
    /\ ~admitHistory[k][i].allowed => admitHistory[k][i].code = "RATE_LIMITED"

C7_Witness ==
  \E k \in Keys :
    /\ Len(admitHistory[k]) = MaxRequests + 2
    /\ ~admitHistory[k][MaxRequests + 1].allowed
    /\ admitHistory[k][MaxRequests + 2].allowed
    /\ admitHistory[k][MaxRequests + 2].time > admitHistory[k][1].time + WindowMs

\* C11: a cancel call that finds the job completed, failed or cancelled
\* ends with InvalidState and leaves the whole job record as it was; a
\* cancel call on an unknown job id ends with NotFound and no record exists
\* afterwards.
C11_CancelOnTerminalRejected ==
  [][\A j \in JobIds :
       (cancelResponse' # cancelResponse /\ cancelResponse'.jobId = j)
       => /\ cancelResponse'.seen \in Terminal
               => (cancelResponse'.error = "InvalidState" /\ jobStatuses'[j] = jobStatuses[j])
          /\ cancelResponse'.seen = "none"
               => (cancelResponse'.error = "NotFound" /\ ~jobStatuses'[j].exists)]_vars

CancelledError == Some([code |-> "CANCELLED", message |-> "Job cancelled by user"])

\* C12: once a job has been cancelled while its pipeline is running, the
\* pipeline's later writes are discarded: the status stays cancelled, the
\* result stays null and the error stays the CANCELLED error.
C12_CancelledOutputDiscarded ==
  [][\A j \in JobIds :
       ( /\ jobStatuses[j].status = "cancelled"
         /\ jobStatuses[j].result = Null
         /\ jobStatuses[j].error = CancelledError
         /\ run[j].pc # "idle" )
       => ( /\ jobStatuses'[j].status = "cancelled"
            /\ jobStatuses'[j].result = Null
            /\ jobStatuses'[j].error = CancelledError )]_vars

\* C13: a submit for a session that does not exist or is not completed ends
\* with SessionNotFound or SessionNotReady and creates no job record; a job
\* record is created only for a session that is completed and has an
\* artifact path when the submit is made.
C13_SubmitRequiresCompletedSession ==
  [][/\ \A u \in SessionIds :
          ( /\ processResponse' # processResponse
            /\ processResponse'.uploadId = u
            /\ (~uploadSessions[u].exists \/ uploadSessions[u].status # "completed") )
          => ( /\ processResponse'.error =
                    IF ~uploadSessions[u].exists THEN "SessionNotFound" ELSE "SessionNotReady"
               /\ jobStatuses' = jobStatuses )
     /\ \A j \in JobIds :
          (~jobStatuses[j].exists /\ jobStatuses'[j].exists)
          => ( /\ uploadSessions[jobStatuses'[j].uploadId].exists
               /\ uploadSessions[jobStatuses'[j].uploadId].status = "completed"
               /\ uploadSessions[jobStatuses'[j].uploadId].combinedPath # Null )]_vars

C13_Witness ==
  /\ processResponse = [uploadId |-> "u1", error |-> "SessionNotReady"]
  /\ uploadSessions["u1"].status = "uploading"
  /\ \A j \in JobIds : ~jobStatuses[j].exists

\* C14: an ingest for an unknown session ends with SessionNotFound and an
\* ingest for a session that is not uploading ends with InvalidState; in
\* both cases the session's chunks, received count and status stay as they
\* were.
C14_RejectedIngestChangesNothing ==
  [][\A s \in SessionIds :
       ( /\ chunkResponse' # chunkResponse
         /\ chunkResponse'.uploadId = s
         /\ (~uploadSessions[s].exists \/ uploadSessions[s].status # "uploading") )
       => ( /\ chunkResponse'.error =
                 IF ~uploadSessions[s].exists THEN "SessionNotFound" ELSE "InvalidState"
            /\ sessionChunks'[s] = sessionChunks[s]
            /\ uploadSessions'[s] = uploadSessions[s] )]_vars

C14_Witness ==
  \E s \in SessionIds :
    /\ chunkResponse = [uploadId |-> s, error |-> "InvalidState", receivedChunks |-> 0,
                        complete |-> FALSE]
    /\ uploadSessions[s].status = "completed"
    /\ uploadSessions[s].receivedChunks = Len(sessionChunks[s].list)
    /\ Len(sessionChunks[s].list) = 3

\* C15: an ingest whose chunk index is negative or not below the request's
\* totalChunks ends with ChunkOutOfRange, and the chunk is not added to the
\* session's chunks.
C15_OutOfRangeIndexRejected ==
  [][\A s \in SessionIds, r \in RawIndices, t \in 1..MaxTotal, b \in Bytes :
       (uploadChunk(s, r, t, b) /\ (parseInt(r) < 0 \/ parseInt(r) >= t))
       => ( /\ chunkResponse'.error = "ChunkOutOfRange"
            /\ sessionChunks'[s] = sessionChunks[s] )]_vars

\* C16: the ingest that brings the received count to the session's
\* expectedChunkCount runs the reassembly before it returns (the session is
\* completed, or the call reports the reassembly's error), and an ingest
\* reports complete = true exactly when the session is completed after it.
C16_ReassemblyAtExpectedCount ==
  [][\A s \in SessionIds :
       arrival'[s] # arrival[s]
       => /\ uploadSessions'[s].receivedChunks = uploadSessions[s].maxChunks
               => (uploadSessions'[s].status = "completed" \/ chunkResponse'.error # "none")
          /\ chunkResponse'.complete <=> (uploadSessions'[s].status = "completed")]_vars

\* C17: in every state of every session, the status is completed exactly
\* when the received count equals expectedChunkCount, and exactly when the
\* artifact path is set.
C17_CompletedIffCountIffArtifact ==
  \A s \in SessionIds :
    uploadSessions[s].exists =>
      /\ (uploadSessions[s].status = "completed")
           <=> (uploadSessions[s].receivedChunks = uploadSessions[s].maxChunks)
      /\ (uploadSessions[s].status = "completed") <=> (uploadSessions[s].combinedPath # Null)

\* C18: a session becomes completed, and its artifact path is recorded,
\* only in an ingest whose reassembly has written every chunk of the session
\* to the artifact and reported no error; an ingest whose reassembly fails
\* leaves the session uploading and without an artifact path.
C18_CompletedOnlyAfterConcatenation ==
  [][\A s \in SessionIds :
       /\ ( \/ (uploadSessions[s].status # "completed" /\ uploadSessions'[s].status = "completed")
            \/ (uploadSessions[s].combinedPath = Null /\ uploadSessions'[s].combinedPath # Null) )
          => ( /\ chunkResponse'.error = "none"
               /\ uploadSessions'[s].status = "completed"
               /\ uploadSessions'[s].combinedPath # Null
               /\ artifacts'[s] # Null
               /\ Len(artifacts'[s][1]) = Len(sessionChunks'[s].list)
               /\ \A i \in 1..Len(sessionChunks'[s].list) :
                    chunkFiles'[sessionChunks'[s].list[i].path] = NoFile )
       /\ (arrival'[s] # arrival[s] /\ chunkResponse'.error # "none")
          => ( /\ uploadSessions'[s].status = "uploading"
               /\ uploadSessions'[s].combinedPath = Null )]_vars

C18_Witness ==
  \E s \in SessionIds :
    /\ chunkResponse.uploadId = s
    /\ chunkResponse.error = "ENOENT"
    /\ artifacts[s] # Null
    /\ Len(artifacts[s][1]) < Len(sessionChunks[s].list)
    /\ uploadSessions[s].status = "uploading"
    /\ uploadSessions[s].combinedPath = Null

\* C19: every denied request carries a reset time strictly after the time
\* of the request and a non-negative Retry-After equal to the wait until
\* that reset time (in seconds, rounded up), a request made exactly at the
\* window's reset time included.
C19_DeniedCarriesFutureReset ==
  [][(admitHistory' # admitHistory /\ ~admitResponse'.allowed)
     => ( /\ admitResponse'.resetTime > now
          /\ admitResponse'.retryAfter >= 0
          /\ admitResponse'.retryAfter = Ceil(admitResponse'.resetTime - now, 1000) )]_vars

\* C20: a request during which the store's increment throws (the request is
\* handled and nothing is counted) is passed on to the next handler, and a
\* request is denied only when the count returned by the increment exceeds
\* the threshold.
C20_FailsOpen ==
  [][admitHistory' # admitHistory
     => /\ clients' = clients => (admitResponse'.allowed /\ admitResponse'.code = "none")
        /\ ~admitResponse'.allowed
             => ( /\ clients' # clients
                  /\ admitResponse'.count = clients'[admitResponse'.key].count
                  /\ admitResponse'.count > MaxRequests )]_vars

C20_Witness ==
  \E k \in Keys :
    /\ admitResponse = FailOpen(k)
    /\ clients[k].count > MaxRequests
    /\ resetTime[k] >= now
    /\ admitHistory[k] # <<>>
    /\ admitHistory[k][Len(admitHistory[k])] = [time |-> now, allowed |-> TRUE, code |-> "none"]

\* C21: a cleanup call returns normally whatever deletions fail and leaves
\* neither the session's record nor its chunk list; on a session that is
\* already gone (a second call, an unknown id) it changes nothing.
C21_CleanupIdempotent ==
  [][\A s \in SweepSessions, failing \in SUBSET DeletableFiles :
       cleanupSession(s, failing)
       => /\ cleanupResponse'.ok
          /\ ~uploadSessions'[s].exists
          /\ ~sessionChunks'[s].present
          /\ (~uploadSessions[s].exists /\ ~sessionChunks[s].present)
               => UNCHANGED <<uploadSessions, sessionChunks, chunkFiles, artifacts>>]_vars

C21_Witness ==
  \E s \in SweepSessions :
    /\ cleanupResponse = [uploadId |-> s, ok |-> TRUE, count |-> 0]
    /\ ~uploadSessions[s].exists
    /\ ~sessionChunks[s].present
    /\ chunkFiles[ChunkPath(s, [num |-> 0, form |-> "plain"])] # NoFile

\* C22: a sweep removes every session created before now - maxAge, whatever
\* deletions fail while cleaning up the others, and leaves the record,
\* chunk list and status of every other session as they were.
C22_SweepRemovesExactlyOld ==
  [][\A maxAge \in SweepAges, failing \in SUBSET DeletableFiles :
       cleanupOldSessions(maxAge, failing)
       => \A s \in SweepSessions :
            IF uploadSessions[s].exists /\ uploadSessions[s].createdAt < now - maxAge
              THEN ~uploadSessions'[s].exists /\ ~sessionChunks'[s].present
              ELSE uploadSessions'[s] = uploadSessions[s] /\ sessionChunks'[s] = sessionChunks[s]]_vars

C22_Witness ==
  /\ cleanupResponse = [uploadId |-> "sweep", ok |-> TRUE, count |-> 1]
  /\ ~uploadSessions["u1"].exists
  /\ chunkFiles[ChunkPath("u1", [num |-> 0, form |-> "plain"])] # NoFile
  /\ uploadSessions["u2"].exists
  /\ uploadSessions["u2"].createdAt = now - 1
  /\ uploadSessions["u2"].receivedChunks = 1

\* C23: every job record, whether its enqueueing succeeded or failed,
\* eventually shows a terminal status.
C23_EveryJobTerminates ==
  \A j \in JobIds :
    [](jobStatuses[j].exists => <>(jobStatuses[j].status \in Terminal))
\* ------------------------------------------------------- session creation
\* n is the least count of chunks of the given size that hold the file.
LeastCount(n, fileSize, chunkSize) ==
  /\ n * chunkSize >= fileSize
  /\ (n - 1) * chunkSize < fileSize

\* C24: every session that was created has maxChunks equal to the least n
\* with n * chunkSize >= fileSize (the chunk size being the default when
\* none was given), and has a fileSize and a chunkSize inside the bounds of
\* requestValidation.js: a request outside them creates no session.
C24_CeilAndBoundsOnCreate ==
  \A s \in DOMAIN uploadSessions :
    uploadSessions[s].exists =>
      /\ LeastCount(uploadSessions[s].maxChunks, uploadSessions[s].fileSize,
                    uploadSessions[s].chunkSize)
      /\ uploadSessions[s].fileSize \in MinFileSize..MaxAllowedFileSize
      /\ uploadSessions[s].chunkSize \in MinChunkSize..MaxAllowedChunkSize

ListIndices(s) == {sessionChunks[s].list[i].index : i \in 1..Len(sessionChunks[s].list)}

\* C26: with POST /chunk calls of distinct indices overlapping, every chunk
\* added is in the session's chunk list (none is lost), combineChunks is
\* called at most once, and exactly once when the session is completed, and
\* the artifact of a completed session is the expected chunks' bytes in
\* index order.
C26_OverlappingIngests ==
  \A s \in SessionIds :
    uploadSessions[s].exists =>
      /\ Len(sessionChunks[s].list) = Len(arrival[s])
      /\ ListIndices(s) = ReceivedIndices(s)
      /\ uploadSessions[s].receivedChunks = Len(arrival[s])
      /\ CombineCalls(Requests) <= 1
      /\ uploadSessions[s].status = "completed" =>
           /\ CombineCalls(Requests) = 1
           /\ ReceivedIndices(s) = ExpectedIndices(s)
           /\ artifacts[s] =
                Some([i \in 1..uploadSessions[s].maxChunks |-> lastBytes[s][i - 1][1]])

\* Two calls with indices 1 and 0 overlapped, and the session of two chunks
\* of different content is completed.
C26_Witness ==
  /\ \A r \in Requests : ingest[r].overlapped /\ ingest[r].pc = "idle"
  /\ ingest["A"].raw.num = 1
  /\ ingest["B"].raw.num = 0
  /\ arrival["u1"] = <<1, 0>>
  /\ uploadSessions["u1"].status = "completed"
  /\ uploadSessions["u1"].maxChunks = 2
  /\ artifacts["u1"] = Some(<<"a", "b">>)
  /\ CombineCalls(Requests) = 1

\* ------------------------------------------------------- jobs side by side
\* C27: a job fails only for a reason of its own, here the engine reading no
\* text in its image; the run, completion or failure of another job, one on
\* the same session included, never makes it fail.
C27_FailureScopedToOneJob ==
  \A j \in DOMAIN jobStatuses :
    jobStatuses[j].status = "failed" => IsBlank(ImageTextOf(j))

\* ------------------------------------------------------- intermediate files
\* The processor of job j has returned or thrown for the last time.
PipelineEnded(j) ==
  /\ jobStatuses[j].exists
  /\ run[j].pc = "idle"
  /\ bull[j].state \in {"completed", "failed"}

\* C28: once a job's pipeline has ended, in completed or in failed, the
\* reassembled file and the optimized file of its session are both deleted.
C28_ArtifactsDeletedAtEnd ==
  \A j \in DOMAIN jobStatuses :
    (PipelineEnded(j) /\ jobStatuses[j].status \in {"completed", "failed"}) =>
      /\ artifacts[jobStatuses[j].uploadId] = Null
      /\ ~optimizedFiles[jobStatuses[j].uploadId]

\* ------------------------------------------------------- stages
StageRank(stage) ==
  CASE stage = "queued" -> 0
    [] stage = "optimizing" -> 1
    [] stage = "extracting" -> 2
    [] stage = "classifying" -> 3
    [] stage = "finalizing" -> 4
    [] OTHER -> -1

\* C29: no step moves a job's stage to an earlier one, and a job that is
\* completed is in the stage finalizing.
C29_StageOnlyForward ==
  [][\A j \in DOMAIN jobStatuses :
       /\ jobStatuses[j].exists =>
            StageRank(jobStatuses'[j].stage) >= StageRank(jobStatuses[j].stage)
       /\ jobStatuses'[j].status = "completed" => jobStatuses'[j].stage = "finalizing"]_vars

\* ------------------------------------------------------- timestamps
\* C30: a pending job has no started timestamp, and a job has a completed
\* timestamp exactly when its status is completed, failed or cancelled.
C30_TimestampsMatchStatus ==
  \A j \in DOMAIN jobStatuses :
    jobStatuses[j].exists =>
      /\ jobStatuses[j].status = "pending" => jobStatuses[j].startedAt = NoTime
      /\ jobStatuses[j].completedAt # NoTime <=> jobStatuses[j].status \in Terminal

\* ------------------------------------------------------- chunk files
ChunkFilesOf(s) == {p \in DOMAIN chunkFiles : p[1] = s /\ chunkFiles[p] # NoFile}

\* C31: when the copy loop of a reassembly has ended, with the artifact
\* complete or with a chunk that could not be read, no temporary chunk file
\* of the session is left.
C31_NoChunkFileAfterReassembly ==
  \A s \in DOMAIN uploadSessions :
    (chunkResponse.uploadId = s /\ (chunkResponse.complete \/ chunkResponse.error = "ENOENT"))
      => ChunkFilesOf(s) = {}

\* ------------------------------------------------------- fixed window
\* The key has a window whose reset time has not passed.
InWindow(k) ==
  /\ clients[k].present
  /\ resetTime[k] # NoTime
  /\ now <= resetTime[k]

\* C32: a key's reset time takes a new value only in a limiter call made
\* with no window or after the reset time has passed, which sets the count to
\* 1 and the reset time to now + windowMs; a call made within the window adds
\* exactly 1 to the count and leaves the reset time as it is, allowed or
\* denied; and an entry is removed only after its reset time has passed.
C32_FixedWindow ==
  [][\A k \in Keys :
       /\ (resetTime'[k] # resetTime[k] /\ resetTime'[k] # NoTime)
            => /\ rateLimiter(k, WindowMs, MaxRequests)
               /\ ~InWindow(k)
               /\ clients'[k].count = 1
               /\ resetTime'[k] = now + WindowMs
               /\ clients'[k].resetTime = now + WindowMs
       /\ (rateLimiter(k, WindowMs, MaxRequests) /\ InWindow(k))
            => /\ clients'[k].count = clients[k].count + 1
               /\ resetTime'[k] = resetTime[k]
               /\ clients'[k].resetTime = clients[k].resetTime
               /\ admitResponse'.resetTime = resetTime[k]
       /\ (resetTime'[k] = NoTime /\ resetTime[k] # NoTime) => now > resetTime[k]]_vars

\* A call at the last instant of a window was denied and left the reset time
\* where the window's first call had put it.
C32_Witness ==
  \E k \in Keys :
    /\ admitResponse.key = k
    /\ ~admitResponse.allowed
    /\ admitResponse.count = MaxRequests + 1
    /\ resetTime[k] = now
    /\ clients[k].resetTime = now
    /\ admitHistory[k][1].time = now - WindowMs

\* ------------------------------------------------------- status polling
\* C33: a status call changes no job record and nothing of the queue or the
\* pipeline; on an unknown id it answers NotFound; and the record it answers
\* is the whole record the map held when the call started, whatever the
\* pipeline has written since.
C33_StatusReadOnlySnapshot ==
  [][statusCall' # statusCall =>
       /\ UNCHANGED <<jobStatuses, bull, run, cancelling, optimizedFiles, uploadVars>>
       /\ \A j \in JobIds :
            /\ (statusCall.pc = "idle" /\ statusCall'.pc = "idle" /\ statusCall'.response.jobId = j)
                 => /\ ~jobStatuses[j].exists
                    /\ statusCall'.response.error = "NotFound"
            /\ (statusCall'.pc = "waiting" /\ statusCall'.jobId = j)
                 => statusCall'.seen = jobStatuses[j]
            /\ (statusCall.pc = "waiting" /\ statusCall.jobId = j)
                 => /\ statusCall'.response.error = "none"
                    /\ statusCall'.response.record = statusCall.seen]_vars

\* A status call that started while the job was active has answered the
\* active record after the pipeline completed the job.
C33_Witness ==
  /\ statusCall.pc = "idle"
  /\ statusCall.response.error = "none"
  /\ statusCall.response.jobId = 1
  /\ statusCall.response.record.status = "active"
  /\ statusCall.response.record.stage = "extracting"
  /\ jobStatuses[1].status = "completed"
  /\ statusCall.response.record # jobStatuses[1]

\* ------------------------------------------------------- retries
\* C34: the pipeline of a job starts at most Attempts times; a failure with
\* attempts left puts the job back in the queue, and the last one does not;
\* every re-run sets status active, stage optimizing and progress 10% and
\* leaves the error and the completed timestamp of the failed attempt on the
\* record.
C34_RetryRestartsOverFailedRecord ==
  [][\A j \in DOMAIN jobStatuses :
       /\ bull'[j].attemptsMade <= Attempts
       /\ processImageJobStart(j) => bull[j].attemptsMade < Attempts
       /\ bull'[j].attemptsMade # bull[j].attemptsMade
            => /\ bull'[j].attemptsMade = bull[j].attemptsMade + 1
               /\ jobStatuses'[j].status = "failed"
               /\ bull'[j].state = IF bull'[j].attemptsMade < Attempts THEN "waiting" ELSE "failed"
       /\ (processImageJobStart(j) /\ bull[j].attemptsMade > 0)
            => /\ jobStatuses[j].status = "failed"
               /\ jobStatuses'[j].status = "active"
               /\ jobStatuses'[j].stage = "optimizing"
               /\ jobStatuses'[j].progress = 10
               /\ jobStatuses[j].error # Null
               /\ jobStatuses'[j].error = jobStatuses[j].error
               /\ jobStatuses[j].completedAt # NoTime
               /\ jobStatuses'[j].completedAt = jobStatuses[j].completedAt]_vars

\* The third attempt of a job has started over the record of the failed
\* second one.
C34_Witness ==
  /\ bull[1].attemptsMade = Attempts - 1
  /\ bull[1].state = "active"
  /\ jobStatuses[1].status = "active"
  /\ jobStatuses[1].stage = "optimizing"
  /\ jobStatuses[1].progress = 10
  /\ jobStatuses[1].error # Null
  /\ jobStatuses[1].completedAt # NoTime

\* ------------------------------------------------------- cleanup and ingest
\* C35: a session id that has no session record and no POST /chunk call in
\* flight has no chunk list and no chunk metadata in memory.
C35_NoStateAfterCleanup ==
  \A s \in DOMAIN uploadSessions :
    ( /\ ~uploadSessions[s].exists
      /\ \A r \in Requests : ingest[r].pc = "idle" \/ ingest[r].uploadId # s )
      => /\ ~sessionChunks[s].present
         /\ sessionChunks[s].list = <<>>

\* ------------------------------------------------------- shared store
\* C36: whichever limiter handles a request of a key, within the key's
\* window it adds 1 to the one count of that key and compares that count
\* with its own maximum, and with no window open it opens one of its own
\* windowMs, which stays the window of the key for the other limiter too.
C36_PoliciesShareCounter ==
  [][\A k \in Keys, p \in Policies :
       rateLimiter(k, p.windowMs, p.max) =>
         IF InWindow(k)
           THEN /\ clients'[k].count = clients[k].count + 1
                /\ admitResponse'.allowed <=> (clients[k].count + 1 <= p.max)
                /\ clients'[k].resetTime = clients[k].resetTime
                /\ resetTime'[k] = resetTime[k]
           ELSE /\ clients'[k].count = 1
                /\ admitResponse'.allowed
                /\ clients'[k].resetTime = now + p.windowMs
                /\ resetTime'[k] = now + p.windowMs]_vars

\* In a window opened by the wide limiter, and of its length, the tight
\* limiter has denied the request that brought the shared count past its own
\* maximum.
C36_Witness ==
  \E k \in Keys :
    /\ admitResponse.key = k
    /\ ~admitResponse.allowed
    /\ admitResponse.count = MaxRequests + 1
    /\ Len(admitHistory[k]) = MaxRequests + 1
    /\ resetTime[k] = admitHistory[k][1].time + WindowMs + 1
    /\ clients[k].resetTime = resetTime[k]

\* ------------------------------------------------------- processor pool
\* C37: at most Concurrency calls of the processor are running and at most
\* that many jobs are active; a job is taken from the queue only while fewer
\* are running; and a submitted job that has not been taken yet is pending.
C37_AtMostThreeRunning ==
  [][/\ Cardinality(Running) <= Concurrency
     /\ Cardinality({j \in DOMAIN jobStatuses : jobStatuses[j].status = "active"}) <= Concurrency
     /\ \A j \in DOMAIN jobStatuses :
          /\ processImageJobStart(j) => Cardinality(Running) < Concurrency
          /\ (bull[j].state = "waiting" /\ bull[j].attemptsMade = 0)
               => jobStatuses[j].status = "pending"]_vars

\* Three pipelines are running and the fourth job waits, pending.
C37_Witness ==
  /\ Cardinality(Running) = Concurrency
  /\ \E j \in DOMAIN jobStatuses :
       /\ j \notin Running
       /\ bull[j].state = "waiting"
       /\ jobStatuses[j].status = "pending"

\* ----------------------------------------------------- purge of the store
\* The entry that MemoryStore.increment finds for the key at the given time:
\* none when it opens a new window, the stored one otherwise.
Live(key, time) == IF Expired(key, time) THEN NoClient ELSE clients[key]

\* The clients map and the resetTime map hold the same keys with the same
\* reset times.
MapsAgree ==
  \A k \in Keys :
    /\ clients[k].present <=> resetTime[k] # NoTime
    /\ clients[k].resetTime = resetTime[k]

\* C38: the two maps of the store always agree, and a purge changes nothing
\* an admit call can see: for every client and every time from now on the
\* entry that increment finds is the same before and after the purge, and so
\* are the value increment would store and the limited/allowed decision under
\* every policy.
C38_PurgeInvisible ==
  [][/\ MapsAgree
     /\ MapsAgree'
     /\ cleanup =>
          \A k \in Keys :
            /\ \A t \in now..(MaxNow + 1) : Live(k, t)' = Live(k, t)
            /\ \A p \in Policies :
                 /\ increment(k, p.windowMs)' = increment(k, p.windowMs)
                 /\ OverLimit(increment(k, p.windowMs).count, p.max)'
                      = OverLimit(increment(k, p.windowMs).count, p.max)]_vars

\* A purge has removed the entry of a client that had been admitted, while
\* another client's window is still open and its entry is kept.
C38_Witness ==
  \E k, other \in Keys :
    /\ Len(admitHistory[k]) > 0
    /\ ~clients[k].present
    /\ clients[other].present
    /\ ~Expired(other, now)
====
